---------------------------- MODULE Spec2Model ----------------------------
(***************************************************************************)
(* A model of src/Synthesizer.hpp: the ADSR envelope, the five built-in    *)
(* instruments' completion rules, the engine's note list with its mutex    *)
(* and sample() pass, and the step sequencer.                              *)
(*                                                                         *)
(* Numbers.  fwave_t is double, an IEEE-754 binary64.  Every time and gain *)
(* of the model is a binary64 value, and + - * / and the comparisons are   *)
(* the binary64 operations: each one rounds its exact result to the        *)
(* nearest double, ties to even, and yields the infinities and NaN as the  *)
(* machine does.  A decimal literal of the source is the double nearest to *)
(* it.  No two operations are fused.                                       *)
(***************************************************************************)
EXTENDS Integers, Naturals, Sequences, FiniteSets, TLC

VARIABLES
    \* synth::base (the engine)
    notes,        \* std::list<note> notes
    mux,          \* std::mutex mux: the thread holding it, or Free
    pc,           \* each thread's position in its current call
    frame,        \* each thread's locals: the call's argument, the
                  \* range-for position, the local `output` of sample()
    output,       \* the value returned by the last completed sample()
    timeGlobal,   \* the time_global argument of the last sample()
    lastOp,       \* the last completed engine call
    \* synth::sequencer
    sq,           \* the sequencer object's fields
    deltaTime,    \* the delta_time argument of the last update()
    ret,          \* the value returned by the last update()
    badRead,      \* update() has indexed a pattern at or past its length
    \* synth::envelope::adsr under test
    adsr,         \* the five parameters
    args,         \* (time_global, time_on, time_off) of the call
    amplitude     \* the value get_amplitude returned, or NoResult

engVars == <<notes, mux, pc, frame, output, timeGlobal, lastOp>>
seqVars == <<sq, deltaTime, ret, badRead>>
envVars == <<adsr, args, amplitude>>
vars == <<notes, mux, pc, frame, output, timeGlobal, lastOp,
          sq, deltaTime, ret, badRead, adsr, args, amplitude>>

-----------------------------------------------------------------------------
(* fwave_t is double: IEEE-754 binary64.  TLC's integers are 32 bits wide,  *)
(* so a 53-bit significand is kept as a natural number written in base     *)
(* 2^15, least significant digit first, without leading zero digits.       *)

\* The element of a one-element set.  The({F(x) : x \in {e}}) is F(e) with e
\* evaluated once, however often F uses x: a local of the C++ code.
The(S) == CHOOSE x \in S : TRUE

Abs(x) == IF x < 0 THEN -x ELSE x
Max(a, b) == IF a >= b THEN a ELSE b
Min(a, b) == IF a <= b THEN a ELSE b

Limb == 2^15
Pow2[k \in Nat] == IF k = 0 THEN 1 ELSE 2 * Pow2[k - 1]
\* The number of binary digits of c.
BitLen[c \in Nat] == IF c = 0 THEN 0 ELSE 1 + BitLen[c \div 2]

\* Natural numbers of any size.
BigNat == Seq(0..(Limb - 1))

BTrim[a \in BigNat] ==
    IF a # << >> /\ a[Len(a)] = 0 THEN BTrim[SubSeq(a, 1, Len(a) - 1)] ELSE a

BFromInt[i \in Nat] ==
    IF i = 0 THEN << >> ELSE <<i % Limb>> \o BFromInt[i \div Limb]

BDigit(a, i) == IF i <= Len(a) THEN a[i] ELSE 0

\* -1, 0, 1 as a < b, a = b, a > b.
BCmpFrom[a \in BigNat, b \in BigNat, i \in Nat] ==
    IF i = 0 THEN 0
    ELSE IF a[i] < b[i] THEN -1
    ELSE IF a[i] > b[i] THEN 1
    ELSE BCmpFrom[a, b, i - 1]

BCmp[a \in BigNat, b \in BigNat] ==
    IF Len(a) < Len(b) THEN -1
    ELSE IF Len(a) > Len(b) THEN 1
    ELSE BCmpFrom[a, b, Len(a)]

\* a + b + c from digit i on.
BAddFrom[a \in BigNat, b \in BigNat, i \in Nat, c \in Nat] ==
    IF i > Len(a) /\ i > Len(b)
    THEN IF c = 0 THEN << >> ELSE <<c>>
    ELSE The({<<s % Limb>> \o BAddFrom[a, b, i + 1, s \div Limb] :
                 s \in {BDigit(a, i) + BDigit(b, i) + c}})

BAdd[a \in BigNat, b \in BigNat] == BAddFrom[a, b, 1, 0]

\* a - b - c from digit i on, for a >= b.
BSubFrom[a \in BigNat, b \in BigNat, i \in Nat, c \in Nat] ==
    IF i > Len(a)
    THEN << >>
    ELSE The({IF s < 0
              THEN <<s + Limb>> \o BSubFrom[a, b, i + 1, 1]
              ELSE <<s>> \o BSubFrom[a, b, i + 1, 0] :
                 s \in {BDigit(a, i) - BDigit(b, i) - c}})

BSub[a \in BigNat, b \in BigNat] == BTrim[BSubFrom[a, b, 1, 0]]

\* a * k + c from digit i on, for a digit k.
BMulSmallFrom[a \in BigNat, k \in Nat, i \in Nat, c \in Nat] ==
    IF i > Len(a)
    THEN IF c = 0 THEN << >> ELSE <<c>>
    ELSE The({<<p % Limb>> \o BMulSmallFrom[a, k, i + 1, p \div Limb] :
                 p \in {a[i] * k + c}})

BMulSmall[a \in BigNat, k \in Nat] ==
    IF k = 0 THEN << >> ELSE BMulSmallFrom[a, k, 1, 0]

\* a * Limb^q
BShlLimbs[a \in BigNat, q \in Nat] ==
    IF a = << >> THEN << >> ELSE [i \in 1..q |-> 0] \o a

\* a * b, from digit i of b on.
BMulFrom[a \in BigNat, b \in BigNat, i \in Nat] ==
    IF i > Len(b) THEN << >>
    ELSE BAdd[BShlLimbs[BMulSmall[a, b[i]], i - 1], BMulFrom[a, b, i + 1]]

BMul[a \in BigNat, b \in BigNat] == BMulFrom[a, b, 1]

\* a * 2^n
BShl[a \in BigNat, n \in Nat] ==
    BShlLimbs[BMulSmall[a, Pow2[n % 15]], n \div 15]

\* floor(a / k) for a digit k > 0, from digit i down with remainder r.
BDivSmallFrom[a \in BigNat, k \in Nat, i \in Nat, r \in Nat] ==
    IF i = 0 THEN << >>
    ELSE The({BDivSmallFrom[a, k, i - 1, t % k] \o <<t \div k>> :
                 t \in {r * Limb + a[i]}})

\* floor(a / 2^n)
BShr[a \in BigNat, n \in Nat] ==
    IF n \div 15 >= Len(a) THEN << >>
    ELSE The({BTrim[BDivSmallFrom[h, Pow2[n % 15], Len(h), 0]] :
                 h \in {SubSeq(a, (n \div 15) + 1, Len(a))}})

\* Binary digit n of a (digit 0 is the lowest).
BBit[a \in BigNat, n \in Nat] ==
    (BDigit(a, (n \div 15) + 1) \div Pow2[n % 15]) % 2

\* a mod 2^n is not 0.
BLowBits[a \in BigNat, n \in Nat] ==
    \/ \E i \in 1..Min(n \div 15, Len(a)) : a[i] # 0
    \/ BDigit(a, (n \div 15) + 1) % Pow2[n % 15] # 0

\* The number of binary digits of a.
BBitLen[a \in BigNat] ==
    IF a = << >> THEN 0 ELSE 15 * (Len(a) - 1) + BitLen[a[Len(a)]]

\* The largest digit d in lo..hi with b * d <= r (b * lo <= r).
BDigitFrom[r \in BigNat, b \in BigNat, lo \in Nat, hi \in Nat] ==
    IF lo = hi THEN lo
    ELSE The({IF BCmp[BMulSmall[b, mid], r] <= 0
              THEN BDigitFrom[r, b, mid, hi]
              ELSE BDigitFrom[r, b, lo, mid - 1] :
                 mid \in {(lo + hi + 1) \div 2}})

\* Long division, digit by digit from digit i of a down: q and r are the
\* quotient and the remainder so far.
BDivModFrom[a \in BigNat, b \in BigNat, i \in Nat, q \in BigNat, r \in BigNat] ==
    IF i = 0 THEN [q |-> BTrim[q], r |-> r]
    ELSE The({The({BDivModFrom[a, b, i - 1, <<d>> \o q, BSub[t, BMulSmall[b, d]]] :
                      d \in {BDigitFrom[t, b, 0, Limb - 1]}}) :
                 t \in {BTrim[<<a[i]>> \o r]}})

\* [q |-> floor(a / b), r |-> a mod b] for b > 0.
BDivMod[a \in BigNat, b \in BigNat] ==
    BDivModFrom[a, b, Len(a), << >>, << >>]

-----------------------------------------------------------------------------
(* A double is a record: k is "fin", "inf" or "nan", s the sign bit, and a *)
(* finite double is (-1)^s * m * 2^e.  A normal double has a 53-digit m and *)
(* -1074 <= e <= 971, a subnormal one a shorter m and e = -1074, and the   *)
(* two zeros m = 0 and e = 0.                                              *)

EMin == -1074
EMax == 971
Digits == 53

Double == [k : {"fin", "inf", "nan"}, s : {0, 1}, m : BigNat, e : Int]

NaN  == [k |-> "nan", s |-> 0, m |-> << >>, e |-> 0]
Inf(s) == [k |-> "inf", s |-> s, m |-> << >>, e |-> 0]
PInf == Inf(0)
NInf == Inf(1)
ZeroOf(s) == [k |-> "fin", s |-> s, m |-> << >>, e |-> 0]
Zero == ZeroOf(0)

IsNaN(x) == x.k = "nan"
IsInf(x) == x.k = "inf"
IsFin(x) == x.k = "fin"
IsZero(x) == x.k = "fin" /\ x.m = << >>

\* The double with sign s, significand m (at most 53 digits) and exponent e.
Pack(s, m, e) ==
    IF m = << >> THEN ZeroOf(s)
    ELSE IF e > EMax THEN Inf(s)
    ELSE [k |-> "fin", s |-> s, m |-> m, e |-> e]

\* n * 2^e rounded at binary digit t - e of n: to nearest, ties to even.
RoundAt[n \in BigNat, d \in Nat] ==
    The({IF BBit[n, d - 1] = 1 /\ (BLowBits[n, d - 1] \/ BBit[q, 0] = 1)
         THEN BAdd[q, <<1>>]
         ELSE q :
            q \in {BShr[n, d]}})

\* The double nearest to (-1)^s * n * 2^e (overflow gives an infinity,
\* underflow is gradual).
Round[s \in {0, 1}, n \in BigNat, e \in Int] ==
    IF n = << >> THEN ZeroOf(s)
    ELSE The({IF t <= e
              THEN Pack(s, BShl[n, e - t], t)
              ELSE The({IF BBitLen[r] > Digits
                        THEN Pack(s, BShr[r, 1], t + 1)
                        ELSE Pack(s, r, t) :
                           r \in {RoundAt[n, t - e]}}) :
                 t \in {Max(e + BBitLen[n] - Digits, EMin)}})

\* (fwave_t)i for an integer i
FromInt[i \in Int] == Round[IF i < 0 THEN 1 ELSE 0, BFromInt[Abs(i)], 0]

FNeg[x \in Double] == IF IsNaN(x) THEN x ELSE [x EXCEPT !.s = 1 - x.s]

\* y as it counts in x + y: a y whose digits all lie more than three places
\* below the last digit of x rounds away as any positive value below a
\* quarter of that digit does.
Near(x, y) ==
    IF x.e - y.e > Digits + 3 THEN [y EXCEPT !.m = <<1>>, !.e = x.e - 3] ELSE y

\* x + y for finite x and y, neither zero: the exact sum, rounded.
FAddExact[x \in Double, y \in Double] ==
    The({The({IF x.s = y.s
              THEN Round[x.s, BAdd[a, b], e]
              ELSE The({IF c = 0 THEN Zero
                        ELSE IF c > 0 THEN Round[x.s, BSub[a, b], e]
                        ELSE Round[y.s, BSub[b, a], e] :
                           c \in {BCmp[a, b]}}) :
                 a \in {BShl[x.m, x.e - e]}, b \in {BShl[y.m, y.e - e]}}) :
            e \in {Min(x.e, y.e)}})

FAddFin[x \in Double, y \in Double] == FAddExact[Near(y, x), Near(x, y)]

FAdd[x \in Double, y \in Double] ==
    CASE IsNaN(x) \/ IsNaN(y) -> NaN
      [] IsInf(x) /\ IsInf(y) -> IF x.s = y.s THEN x ELSE NaN
      [] IsInf(x) -> x
      [] IsInf(y) -> y
      [] IsZero(x) /\ IsZero(y) -> IF x.s = y.s THEN x ELSE Zero
      [] IsZero(x) -> y
      [] IsZero(y) -> x
      [] OTHER -> FAddFin[x, y]

FSub[x \in Double, y \in Double] == FAdd[x, FNeg[y]]

FMul[x \in Double, y \in Double] ==
    CASE IsNaN(x) \/ IsNaN(y) -> NaN
      [] (IsInf(x) /\ IsZero(y)) \/ (IsZero(x) /\ IsInf(y)) -> NaN
      [] IsInf(x) \/ IsInf(y) -> Inf((x.s + y.s) % 2)
      [] OTHER -> Round[(x.s + y.s) % 2, BMul[x.m, y.m], x.e + y.e]

\* x / y for finite x and y, neither zero: the quotient of the significands
\* to at least 55 digits, and one more digit that is 1 when the division
\* leaves a remainder.
FDivFin[x \in Double, y \in Double] ==
    The({The({Round[(x.s + y.s) % 2,
                    BAdd[BMulSmall[d.q, 2], IF d.r = << >> THEN << >> ELSE <<1>>],
                    x.e - y.e - k - 1] :
                 d \in {BDivMod[BShl[x.m, k], y.m]}}) :
            k \in {Max(0, Digits + 3 + BBitLen[y.m] - BBitLen[x.m])}})

FDiv[x \in Double, y \in Double] ==
    CASE IsNaN(x) \/ IsNaN(y) -> NaN
      [] IsInf(x) /\ IsInf(y) -> NaN
      [] IsZero(x) /\ IsZero(y) -> NaN
      [] IsInf(x) \/ IsZero(y) -> Inf((x.s + y.s) % 2)
      [] IsInf(y) \/ IsZero(x) -> ZeroOf((x.s + y.s) % 2)
      [] OTHER -> FDivFin[x, y]

\* -1, 0, 1 as |x| < |y|, |x| = |y|, |x| > |y|, for x and y not NaN.
MagCmp[x \in Double, y \in Double] ==
    CASE IsInf(x) -> IF IsInf(y) THEN 0 ELSE 1
      [] IsInf(y) -> -1
      [] IsZero(x) -> IF IsZero(y) THEN 0 ELSE -1
      [] IsZero(y) -> 1
      [] x.e # y.e -> IF x.e < y.e THEN -1 ELSE 1
      [] OTHER -> BCmp[x.m, y.m]

\* -1, 0, 1 as x < y, x = y, x > y, for x and y not NaN (-0 = +0).
Cmp[x \in Double, y \in Double] ==
    CASE IsZero(x) /\ IsZero(y) -> 0
      [] x.s = 0 /\ y.s = 1 -> 1
      [] x.s = 1 /\ y.s = 0 -> -1
      [] x.s = 0 -> MagCmp[x, y]
      [] OTHER -> MagCmp[y, x]

\* x < y, x <= y, x > y, x >= y; every comparison with NaN is false.
FLt[x \in Double, y \in Double] == ~IsNaN(x) /\ ~IsNaN(y) /\ Cmp[x, y] < 0
FLe[x \in Double, y \in Double] == ~IsNaN(x) /\ ~IsNaN(y) /\ Cmp[x, y] <= 0
FGt[x \in Double, y \in Double] == FLt[y, x]
FGe[x \in Double, y \in Double] == FLe[y, x]

\* The double a decimal literal n/d denotes (n and d whole numbers, d > 0):
\* the literal and the quotient of two exact doubles are both correctly
\* rounded.
Dec(n, d) == FDiv[FromInt[n], FromInt[d]]

Threshold == Dec(1, 100)

-----------------------------------------------------------------------------
(* synth::envelope::adsr                                                   *)

\* adsr::adsr(): the defaults.
adsr_default ==
    [attackTime |-> Dec(1, 10), decayTime |-> Dec(1, 10),
     sustainAmplitude |-> FromInt[1], releaseTime |-> Dec(2, 10),
     startAmplitude |-> FromInt[1]]

\* The three consecutive ifs that both branches of get_amplitude share:
\* the attack/decay/sustain value at note age lifeTime, starting from 0.0.
ads_value(e, lifeTime) ==
    LET v1 == IF FLe[lifeTime, e.attackTime]
              THEN FMul[FDiv[lifeTime, e.attackTime], e.startAmplitude]
              ELSE Zero
        v2 == IF FLt[e.attackTime, lifeTime]
                 /\ FLe[lifeTime, FAdd[e.attackTime, e.decayTime]]
              THEN FAdd[FMul[FDiv[FSub[lifeTime, e.attackTime], e.decayTime],
                             FSub[e.sustainAmplitude, e.startAmplitude]],
                        e.startAmplitude]
              ELSE v1
        v3 == IF FLt[FAdd[e.attackTime, e.decayTime], lifeTime]
              THEN e.sustainAmplitude
              ELSE v2
    IN  v3

\* The value before the final threshold test.
raw_amplitude(e, time_global, time_on, time_off) ==
    IF FGt[time_on, time_off]
    THEN The({ads_value(e, lifeTime) : lifeTime \in {FSub[time_global, time_on]}})
    ELSE The({FAdd[FMul[FDiv[FSub[time_global, time_off], e.releaseTime],
                        FNeg[releaseAmplitude]],
                   releaseAmplitude] :
                 releaseAmplitude \in
                    {The({ads_value(e, lifeTime) :
                             lifeTime \in {FSub[time_off, time_on]}})}})

\* The return statement: amplitude > 0.01 ? amplitude : 0.0
threshold_NoClamp(a) == a
threshold(a) == IF FGt[a, Threshold] THEN a ELSE Zero

get_amplitude(e, time_global, time_on, time_off) ==
    The({threshold(a) : a \in {raw_amplitude(e, time_global, time_on, time_off)}})

-----------------------------------------------------------------------------
(* synth::inst: the five built-in instruments.                             *)

NULL == "nullptr"

\* bell::bell()
bell ==
    [env |-> [adsr_default EXCEPT !.attackTime = Dec(1, 100),
                                  !.decayTime = FromInt[1],
                                  !.sustainAmplitude = Zero,
                                  !.releaseTime = FromInt[1]],
     volume |-> FromInt[1], maxLifeTime |-> FromInt[3], name |-> "Bell"]

\* harmonica::harmonica()
harmonica ==
    [env |-> [adsr_default EXCEPT !.attackTime = Zero,
                                  !.decayTime = FromInt[1],
                                  !.sustainAmplitude = Dec(95, 100),
                                  !.releaseTime = Dec(1, 10)],
     volume |-> Dec(3, 10), maxLifeTime |-> FromInt[-1], name |-> "Harmonica"]

\* drum::kick::kick()
kick ==
    [env |-> [adsr_default EXCEPT !.attackTime = Dec(1, 100),
                                  !.decayTime = Dec(15, 100),
                                  !.sustainAmplitude = Zero,
                                  !.releaseTime = Zero],
     volume |-> FromInt[1], maxLifeTime |-> Dec(15, 10), name |-> "Drum Kick"]

\* drum::snare::snare()
snare ==
    [env |-> [adsr_default EXCEPT !.attackTime = Zero,
                                  !.decayTime = Dec(2, 10),
                                  !.sustainAmplitude = Zero,
                                  !.releaseTime = Zero],
     volume |-> FromInt[1], maxLifeTime |-> FromInt[1], name |-> "Drum Snare"]

\* drum::hihat::hihat()
hihat ==
    [env |-> [adsr_default EXCEPT !.attackTime = Dec(1, 100),
                                  !.decayTime = Dec(5, 100),
                                  !.sustainAmplitude = Zero,
                                  !.releaseTime = Zero],
     volume |-> Dec(5, 10), maxLifeTime |-> Dec(15, 10), name |-> "Drum HiHat"]

\* The objects a note's channel pointer can point to.
Instruments == {"bell", "harmonica", "kick", "snare", "hihat"}
Inst(ch) ==
    CASE ch = "bell" -> bell
      [] ch = "harmonica" -> harmonica
      [] ch = "kick" -> kick
      [] ch = "snare" -> snare
      [] ch = "hihat" -> hihat

\* inst::base::is_note_finished
is_note_finished_NoLifetime(i, amp, check_amplitude, time_global, time_on) ==
    IF check_amplitude THEN FLe[amp, Zero] ELSE FALSE
is_note_finished(i, amp, check_amplitude, time_global, time_on) ==
    IF check_amplitude
    THEN FLe[amp, Zero]
    ELSE FGt[i.maxLifeTime, Zero]
         /\ FGe[FSub[time_global, time_on], i.maxLifeTime]

\* The weighted oscillator sum of a recipe at a note age is exactly zero: the
\* Bell's three SINE partials at age 0, where every osc() is sin(0).
SoundIsZero(ch, age) == ch = "bell" /\ IsZero(age)

\* The product amplitude * sound * volume that is 0.0.
ZeroProduct == [amp |-> Zero, ch |-> NULL, age |-> Zero, id |-> 0, rnd |-> 0]

\* The product amplitude * sound * volume of one sound() call.  The weighted
\* oscillator sum is a function of the recipe, the note's age and its id, and
\* of rand() where the recipe has a NOISE partial; it is finite, and where it
\* is not zero the product is kept symbolic.  The product is zero when the
\* amplitude is zero, and when the sum is zero and the amplitude finite.
Product(amp, ch, time_global, n, rnd) ==
    The({IF IsZero(amp) \/ (SoundIsZero(ch, age) /\ IsFin(amp))
         THEN ZeroProduct
         ELSE [amp |-> amp, ch |-> ch, age |-> age, id |-> n.id, rnd |-> rnd] :
            age \in {FSub[time_global, n.on]}})

\* bell::sound: SINE partials only
bell_sound(time_global, n, rnd) ==
    The({[value |-> Product(amp, "bell", time_global, n, 0),
          finished |-> is_note_finished(bell, amp, TRUE, Zero, Zero)] :
            amp \in {get_amplitude(bell.env, time_global, n.on, n.off)}})

\* harmonica::sound: SAW_ANA, SQUARE and NOISE partials
harmonica_sound(time_global, n, rnd) ==
    The({[value |-> Product(amp, "harmonica", time_global, n, rnd),
          finished |-> is_note_finished(harmonica, amp, TRUE, Zero, Zero)] :
            amp \in {get_amplitude(harmonica.env, time_global, n.on, n.off)}})

\* drum::kick::sound: SINE and NOISE partials
kick_sound(time_global, n, rnd) ==
    The({[value |-> Product(amp, "kick", time_global, n, rnd),
          finished |-> is_note_finished(kick, amp, FALSE, time_global, n.on)] :
            amp \in {get_amplitude(kick.env, time_global, n.on, n.off)}})

\* drum::snare::sound: SINE and NOISE partials
snare_sound(time_global, n, rnd) ==
    The({[value |-> Product(amp, "snare", time_global, n, rnd),
          finished |-> is_note_finished(snare, amp, FALSE, time_global, n.on)] :
            amp \in {get_amplitude(snare.env, time_global, n.on, n.off)}})

\* drum::hihat::sound: SQUARE and NOISE partials
hihat_sound(time_global, n, rnd) ==
    The({[value |-> Product(amp, "hihat", time_global, n, rnd),
          finished |-> is_note_finished(hihat, amp, FALSE, time_global, n.on)] :
            amp \in {get_amplitude(hihat.env, time_global, n.on, n.off)}})

\* The body the virtual call note.channel->sound(...) runs.
sound(ch, time_global, n, rnd) ==
    CASE ch = "bell" -> bell_sound(time_global, n, rnd)
      [] ch = "harmonica" -> harmonica_sound(time_global, n, rnd)
      [] ch = "kick" -> kick_sound(time_global, n, rnd)
      [] ch = "snare" -> snare_sound(time_global, n, rnd)
      [] ch = "hihat" -> hihat_sound(time_global, n, rnd)

\* Recipes with an oscillator::NOISE partial.
NoiseDriven == {"harmonica", "kick", "snare", "hihat"}
\* Recipes whose completion is is_note_finished(amplitude).
AmplitudeGated == {"bell", "harmonica"}
\* Recipes whose completion is is_note_finished(amplitude, false, t, on).
LifetimeGated == {"kick", "snare", "hihat"}

-----------------------------------------------------------------------------
(* synth::note                                                             *)

\* note::note()
note_default ==
    [id |-> 0, on |-> Zero, off |-> Zero, active |-> FALSE, channel |-> NULL]

-----------------------------------------------------------------------------
(* synth::base: the engine                                                 *)

\* The values callers pass, in seconds: 0.51; 0.0 and 0.75; 0.51, 0.75,
\* 1.51, 2.01 and 3.0.
OnTimes == {Dec(51, 100)}
OffTimes == {Zero, Dec(75, 100)}
SampleTimes ==
    {Dec(51, 100), Dec(75, 100), Dec(151, 100), Dec(201, 100), FromInt[3]}
NoteIds == {64}
\* What distinguishes two results of rand().
RandVals == {0, 1}

NoteUniverse ==
    [id : NoteIds, on : OnTimes, off : OffTimes, active : BOOLEAN,
     channel : Instruments \cup {NULL}]

\* sound() is a function of time_global, of the note's id, on and off, and of
\* rand(): its results for the arguments the callers above can pass,
\* computed once.
SoundTable ==
    [ch \in Instruments, t \in SampleTimes, id \in NoteIds, on \in OnTimes,
     off \in OffTimes, rnd \in RandVals |->
        sound(ch, t, [note_default EXCEPT !.id = id, !.on = on, !.off = off,
                                          !.channel = ch], rnd)]

\* The virtual call note.channel->sound(time_global, note, noteFinished).
call_sound(ch, time_global, n, rnd) ==
    IF /\ time_global \in SampleTimes /\ n.id \in NoteIds
       /\ n.on \in OnTimes /\ n.off \in OffTimes
    THEN SoundTable[ch, time_global, n.id, n.on, n.off, rnd]
    ELSE sound(ch, time_global, n, rnd)

Free == "free"
\* fwave_t output = 0.0: the empty sum.
Silence == << >>

\* output += x, the sum kept as the sequence of its non-zero terms.
Mix(sum, x) == IF x = ZeroProduct THEN sum ELSE Append(sum, x)

\* One iteration of the range-for in sample(): the note as the iteration
\* leaves it and the output as the iteration leaves it.
visit_NoNullCheck(n, time_global, sum, rnd) ==
    The({[note |-> IF r.finished THEN [n EXCEPT !.active = FALSE] ELSE n,
          sum  |-> Mix(sum, r.value)] :
            r \in {call_sound(IF n.channel = NULL THEN "bell" ELSE n.channel,
                              time_global, n, rnd)}})
visit(n, time_global, sum, rnd) ==
    IF n.channel # NULL
    THEN The({[note |-> IF r.finished THEN [n EXCEPT !.active = FALSE] ELSE n,
               sum  |-> Mix(sum, r.value)] :
                 r \in {call_sound(n.channel, time_global, n, rnd)}})
    ELSE [note |-> n, sum |-> sum]

\* notes.remove_if([](const note& note) { return !note.active; })
remove_inactive_KeepAll(ns) == ns
remove_inactive(ns) == SelectSeq(ns, LAMBDA n : n.active)

\* The range-for from position i on: the list and the sum after the loop.
RECURSIVE for_each_note(_, _, _, _, _)
for_each_note(ns, i, time_global, sum, rs) ==
    IF i > Len(ns)
    THEN [notes |-> ns, sum |-> sum]
    ELSE The({for_each_note([ns EXCEPT ![i] = v.note], i + 1, time_global,
                            v.sum, rs) :
                 v \in {visit(ns[i], time_global, sum, rs[i])}})

\* base::sample with the mutex uncontended: the list it leaves and the value
\* it returns.  rs[i] is what rand() yields while note i is rendered.
sample(ns, time_global, rs) ==
    The({[notes |-> remove_inactive(p.notes), output |-> p.sum] :
            p \in {for_each_note(ns, 1, time_global, Silence, rs)}})


-----------------------------------------------------------------------------
(* The engine driven by one caller at a time: every call runs to its end.  *)

\* Bounds of the model.
MaxNotes == 2

Threads == {"p1", "p2", "c1", "c2"}
Producers == {"p1", "p2"}
Consumers == {"c1", "c2"}

NoFrame == [arg |-> 0, it |-> 0, output |-> Silence]

EngInit ==
    /\ notes = << >>
    /\ mux = Free
    /\ pc = [th \in Threads |-> "idle"]
    /\ frame = [th \in Threads |-> NoFrame]
    /\ output = Silence
    /\ timeGlobal = Zero
    /\ lastOp = "none"

SeqIdle ==
    /\ sq = [beats |-> 0, subBeats |-> 0, currentBeat |-> 0, totalBeats |-> 0,
             tempo |-> Zero, beatTime |-> Zero, timeTotal |-> Zero,
             notes |-> << >>, channels |-> << >>]
    /\ deltaTime = Zero
    /\ ret = 0
    /\ badRead = FALSE

\* No call of get_amplitude has returned.
NoResult == [k |-> "none", s |-> 0, m |-> << >>, e |-> 0]

EnvIdle ==
    /\ adsr = adsr_default
    /\ args = <<Zero, Zero, Zero>>
    /\ amplitude = NoResult

\* What rand() can yield during one pass over ns: one draw per note whose
\* recipe has a NOISE partial (rs[i] is not read for the other notes).
RandDraws(ns) ==
    {rs \in [1..Len(ns) -> RandVals] :
        \A i \in 1..Len(ns) : ns[i].channel \notin NoiseDriven => rs[i] = 0}

\* addNote(note): the insert, under the engine's lock.
AddNote(n) ==
    /\ mux = Free
    /\ Len(notes) < MaxNotes
    /\ notes' = Append(notes, n)
    /\ lastOp' = "mutate"
    /\ output' = Silence
    /\ UNCHANGED <<mux, pc, frame, timeGlobal>>
    /\ UNCHANGED <<seqVars, envVars>>

\* setNoteOff(noteRef, time): the in-place update of off, under the lock.
SetNoteOff(i, t) ==
    /\ mux = Free
    /\ i \in 1..Len(notes)
    /\ notes[i].off # t
    /\ notes' = [notes EXCEPT ![i].off = t]
    /\ lastOp' = "mutate"
    /\ output' = Silence
    /\ UNCHANGED <<mux, pc, frame, timeGlobal>>
    /\ UNCHANGED <<seqVars, envVars>>

\* base::sample(time_global), from lock to return.
Sample(t) ==
    /\ mux = Free
    /\ \E rs \in RandDraws(notes) :
          \E r \in {sample(notes, t, rs)} :
              /\ notes' = r.notes
              /\ output' = r.output
    /\ timeGlobal' = t
    /\ lastOp' = "sample"
    /\ UNCHANGED <<mux, pc, frame>>
    /\ UNCHANGED <<seqVars, envVars>>

Init == EngInit /\ SeqIdle /\ EnvIdle

Next ==
    \/ \E n \in NoteUniverse : AddNote(n)
    \/ \E i \in 1..MaxNotes, t \in OffTimes : SetNoteOff(i, t)
    \/ \E t \in SampleTimes : Sample(t)

Spec == Init /\ [][Next]_vars


-----------------------------------------------------------------------------
(* Properties of the render pass (specification Spec).                     *)

\* A step that is a completed sample() call; its argument is timeGlobal'.
SampleStep == lastOp' = "sample"

\* The instrument of n reports note_finished at time t.
ReportsFinished(n, t) ==
    /\ n.channel # NULL
    /\ call_sound(n.channel, t, n, 0).finished

IsActiveNull(n) == n.channel = NULL /\ n.active
NonNull(ns) == SelectSeq(ns, LAMBDA n : n.channel # NULL)
NoNoise(ns) == \A i \in 1..Len(ns) : ns[i].channel \notin NoiseDriven
ZeroDraws(ns) == [i \in 1..Len(ns) |-> 0]

\* C2: after sample(t) returns, the list holds exactly the notes that were in
\* it before the call, were active, and whose instrument did not report
\* finished at t, unchanged and in order; so no inactive note is in the list
\* after a pass.
C2_PoolAfterSample ==
    /\ [][SampleStep =>
            notes' = SelectSeq(notes,
                        LAMBDA n : n.active /\ ~ReportsFinished(n, timeGlobal'))]_vars
    /\ [](lastOp = "sample" => \A i \in 1..Len(notes) : notes[i].active)

\* A pass has rendered two audible notes and kept exactly one of them.
C2_Witness ==
    /\ lastOp = "sample"
    /\ Len(output) = 2
    /\ Len(notes) = 1

\* C7: a note whose channel is null adds nothing to the output of a pass (the
\* pass returns what it returns for the list without the null-channel notes)
\* and is never marked inactive: the active null-channel notes are the same
\* after the pass as before it.
C7_NullChannelSilent ==
    [][SampleStep =>
         /\ SelectSeq(notes', IsActiveNull) = SelectSeq(notes, IsActiveNull)
         /\ \E rs \in RandDraws(NonNull(notes)) :
               output' = sample(NonNull(notes), timeGlobal', rs).output]_vars

\* A pass has run over an active null-channel note and an audible note.
C7_Witness ==
    /\ lastOp = "sample"
    /\ output # Silence
    /\ \E i \in 1..Len(notes) : IsActiveNull(notes[i])

\* C8: for a list with no NOISE-driven instrument, two sample() calls at the
\* same time_global with nothing in between return the same output.
C8_Idempotent ==
    \A t \in SampleTimes :
        NoNoise(notes) =>
            LET first  == sample(notes, t, ZeroDraws(notes))
                second == sample(first.notes, t, ZeroDraws(first.notes))
            IN  second.output = first.output

\* n is held, active, and bound to an amplitude-gated instrument whose
\* envelope sustains above the 0.01 threshold.
HeldSustaining(n) ==
    /\ n.active
    /\ FGt[n.on, n.off]
    /\ n.channel \in AmplitudeGated
    /\ FGt[Inst(n.channel).env.sustainAmplitude, Threshold]

\* C10: a pass at time_global >= on never removes a held note of an
\* amplitude-gated instrument that sustains above 0.01.
C10_HeldNoteStays ==
    [][SampleStep =>
         \A i \in 1..Len(notes) :
            (HeldSustaining(notes[i]) /\ FGe[timeGlobal', notes[i].on])
               => \E j \in 1..Len(notes') : notes'[j] = notes[i]]_vars


-----------------------------------------------------------------------------
(* The engine under an audio callback that keeps calling sample() with a   *)
(* growing time_global (specification LiveSpec).  The last value of        *)
(* SampleTimes stands for every later time: from it on each recipe's       *)
(* completion test gives the same answer for every note of NoteUniverse.   *)

LastTime == CHOOSE t \in SampleTimes : \A u \in SampleTimes : FLe[u, t]

SampleLater ==
    \E t \in SampleTimes :
        /\ FGt[t, timeGlobal] \/ t = LastTime
        /\ Sample(t)

\* The notes a caller triggers are active (as the sequencer's are).
TriggeredNotes == {n \in NoteUniverse : n.active}

LiveNext ==
    \/ \E n \in TriggeredNotes : AddNote(n)
    \/ \E i \in 1..MaxNotes, t \in OffTimes : SetNoteOff(i, t)
    \/ SampleLater

LiveSpec == Init /\ [][LiveNext]_vars /\ WF_vars(SampleLater)

InPool(n) == \E i \in 1..Len(notes) : notes[i] = n

ReleasedAmplitudeGated ==
    {n \in TriggeredNotes : FGe[n.off, n.on] /\ n.channel \in AmplitudeGated}

\* t - on >= l as real numbers, for doubles t, on, l that are finite and not
\* negative.
AtLeastApart(t, on, l) ==
    The({BCmp[BShl[t.m, t.e - e],
              BAdd[BShl[on.m, on.e - e], BShl[l.m, l.e - e]]] >= 0 :
            e \in {Min(t.e, Min(on.e, l.e))}})

LifetimeExpired(n, t) ==
    /\ n.channel \in LifetimeGated
    /\ FGt[Inst(n.channel).maxLifeTime, Zero]
    /\ AtLeastApart(t, n.on, Inst(n.channel).maxLifeTime)

\* C3: under sample() calls with growing time_global, a pass with
\* time_global - on >= maxLifeTime (as real numbers) leaves no note of a lifetime-gated
\* instrument (maxLifeTime > 0) with that on time in the list, and every
\* released note (off >= on) of an amplitude-gated instrument that is in the
\* list is eventually not in it (InPool(n) ~> ~InPool(n), which is the same
\* as ~InPool(n) holding again and again).
C3_EventuallyPruned ==
    /\ [][SampleStep =>
            \A i \in 1..Len(notes') : ~LifetimeExpired(notes'[i], timeGlobal')]_vars
    /\ \A n \in ReleasedAmplitudeGated : []<>(~InPool(n))

\* Passes have run, and the list holds a released bell note that still
\* sounds next to a drum note whose lifetime has not yet expired.
C3_Witness ==
    /\ lastOp = "sample"
    /\ FLt[timeGlobal, LastTime]
    /\ \E i \in 1..Len(notes) : notes[i] \in ReleasedAmplitudeGated
    /\ \E j \in 1..Len(notes) : notes[j].channel \in LifetimeGated


-----------------------------------------------------------------------------
(* The engine called from several threads (specification ConcSpec): each   *)
(* call is a sequence of steps, and steps of different threads interleave. *)

\* What the threads pass.
ConcNotes == {n \in TriggeredNotes : n.channel \in {"bell", "kick"} /\ n.off = Zero}
ConcSampleTimes == {Dec(75, 100), FromInt[3]}
ConcOffTimes == {Dec(75, 100)}

SetPc(th, l) == pc' = [pc EXCEPT ![th] = l]

\* std::unique_lock<std::mutex> lock(mux): blocks until the mutex is free.
s_lock_NoWait(th, t) ==
    /\ pc[th] = "idle"
    /\ mux' = th
    /\ SetPc(th, "loop")
    /\ frame' = [frame EXCEPT ![th] = [arg |-> t, it |-> 1, output |-> Silence]]
    /\ UNCHANGED <<notes, output, timeGlobal, lastOp>>
    /\ UNCHANGED <<seqVars, envVars>>
s_lock(th, t) ==
    /\ pc[th] = "idle"
    /\ mux = Free
    /\ mux' = th
    /\ SetPc(th, "loop")
    /\ frame' = [frame EXCEPT ![th] = [arg |-> t, it |-> 1, output |-> Silence]]
    /\ UNCHANGED <<notes, output, timeGlobal, lastOp>>
    /\ UNCHANGED <<seqVars, envVars>>

\* One iteration of for (auto& note : notes), or the end of the loop.
s_loop(th) ==
    /\ pc[th] = "loop"
    /\ LET f == frame[th]
       IN  IF f.it <= Len(notes)
           THEN \E rnd \in IF notes[f.it].channel \in NoiseDriven
                           THEN RandVals ELSE {0} :
                  \E v \in {visit(notes[f.it], f.arg, f.output, rnd)} :
                     /\ notes' = [notes EXCEPT ![f.it] = v.note]
                     /\ frame' = [frame EXCEPT ![th].it = f.it + 1,
                                               ![th].output = v.sum]
                     /\ UNCHANGED pc
           ELSE /\ SetPc(th, "prune")
                /\ UNCHANGED <<notes, frame>>
    /\ UNCHANGED <<mux, output, timeGlobal, lastOp>>
    /\ UNCHANGED <<seqVars, envVars>>

\* notes.remove_if(...)
s_prune(th) ==
    /\ pc[th] = "prune"
    /\ notes' = remove_inactive(notes)
    /\ SetPc(th, "return")
    /\ UNCHANGED <<mux, frame, output, timeGlobal, lastOp>>
    /\ UNCHANGED <<seqVars, envVars>>

\* return output; the unique_lock's destructor unlocks the mutex.
s_return(th) ==
    /\ pc[th] = "return"
    /\ mux' = Free
    /\ output' = frame[th].output
    /\ timeGlobal' = frame[th].arg
    /\ lastOp' = "sample"
    /\ SetPc(th, "idle")
    /\ frame' = [frame EXCEPT ![th] = NoFrame]
    /\ UNCHANGED notes
    /\ UNCHANGED <<seqVars, envVars>>

\* addNote(note): lock, insert, unlock.
a_lock(th, n) ==
    /\ pc[th] = "idle"
    /\ mux = Free
    /\ Len(notes) < MaxNotes
    /\ mux' = th
    /\ SetPc(th, "add")
    /\ frame' = [frame EXCEPT ![th].arg = n]
    /\ UNCHANGED <<notes, output, timeGlobal, lastOp>>
    /\ UNCHANGED <<seqVars, envVars>>

a_push(th) ==
    /\ pc[th] = "add"
    /\ notes' = Append(notes, frame[th].arg)
    /\ mux' = Free
    /\ SetPc(th, "idle")
    /\ frame' = [frame EXCEPT ![th] = NoFrame]
    /\ lastOp' = "mutate"
    /\ UNCHANGED <<output, timeGlobal>>
    /\ UNCHANGED <<seqVars, envVars>>

\* setNoteOff(noteRef, time): lock, update off in place, unlock.
o_lock(th, t) ==
    /\ pc[th] = "idle"
    /\ mux = Free
    /\ mux' = th
    /\ SetPc(th, "off")
    /\ frame' = [frame EXCEPT ![th].arg = t]
    /\ UNCHANGED <<notes, output, timeGlobal, lastOp>>
    /\ UNCHANGED <<seqVars, envVars>>

o_set(th) ==
    /\ pc[th] = "off"
    /\ \/ \E i \in 1..Len(notes) :
             notes' = [notes EXCEPT ![i].off = frame[th].arg]
       \/ notes = << >> /\ UNCHANGED notes
    /\ mux' = Free
    /\ SetPc(th, "idle")
    /\ frame' = [frame EXCEPT ![th] = NoFrame]
    /\ lastOp' = "mutate"
    /\ UNCHANGED <<output, timeGlobal>>
    /\ UNCHANGED <<seqVars, envVars>>

ConcNext ==
    \/ \E th \in Consumers, t \in ConcSampleTimes : s_lock(th, t)
    \/ \E th \in Consumers : s_loop(th)
    \/ \E th \in Consumers : s_prune(th)
    \/ \E th \in Consumers : s_return(th)
    \/ \E th \in Producers, n \in ConcNotes : a_lock(th, n)
    \/ \E th \in Producers : a_push(th)
    \/ \E th \in Producers, t \in ConcOffTimes : o_lock(th, t)
    \/ \E th \in Producers : o_set(th)

ConcSpec == Init /\ [][ConcNext]_vars

\* th is between the first and the last access of a call to the note list.
Accessing(th) == pc[th] \in {"loop", "prune", "return", "add", "off"}

\* C1: in every interleaving, at most one thread is inside a call's access
\* to the note list (so no insert, no update of off and no second pass
\* happens during a pass), that thread holds the mutex, and a thread that has
\* returned does not hold it.
C1_MutualExclusion ==
    /\ \A a, b \in Threads : (Accessing(a) /\ Accessing(b)) => a = b
    /\ \A th \in Threads : Accessing(th) => mux = th
    /\ \A th \in Threads : pc[th] = "idle" => mux # th
    /\ (\A th \in Threads : pc[th] = "idle") => mux = Free

\* A pass is in the middle of a two-note list while the other threads are
\* outside their calls.
C1_Witness ==
    /\ pc["c1"] = "loop"
    /\ frame["c1"].it = 2
    /\ Len(notes) = 2
    /\ \A th \in Threads \ {"c1"} : pc[th] = "idle"


-----------------------------------------------------------------------------
(* synth::sequencer                                                        *)

\* Bounds of the model.
MaxChannels == 2
MaxFine == 4

\* 2^-4 s is 2^53 units of 2^-57 s.  The double nearest to c * 2^-4 s plus
\* f units.
Sixteenths(c, f) ==
    Round[0, IF f >= 0 THEN BAdd[BShl[BFromInt[c], Digits], BFromInt[f]]
                       ELSE BSub[BShl[BFromInt[c], Digits], BFromInt[-f]],
          -57]

\* The clock values the model follows: within MaxFine units of a whole
\* number of sixteenths of a second.
ClockValues ==
    {Sixteenths(c, f) : c \in 0..4, f \in 0..MaxFine} \cup
        {Sixteenths(c, f) : c \in 1..4, f \in (-MaxFine)..0}

\* Constructor arguments <<tempo, beats, sub_beats>>: beat times 0.125 s,
\* 0.25 s and 0.15 s.
SeqConfigs ==
    {<<FromInt[120], 4, 4>>, <<FromInt[120], 1, 2>>, <<FromInt[100], 4, 4>>}

\* A pattern is the sequence of the characters of channel.beat.
Every4th(len) == [i \in 1..len |-> IF (i - 1) % 4 = 0 THEN "x" ELSE "."]
Patterns == {Every4th(16), <<"x", ".">>}

\* delta_time arguments: 0, 1/16 s, the double after 1/16 s, the double
\* before 1/8 s, 1/8 s, 1/4 s.
DeltaTimes ==
    {Zero, Sixteenths(1, 0), Sixteenths(1, 2), Sixteenths(2, -2),
     Sixteenths(2, 0), Sixteenths(4, 0)}

\* sequencer::sequencer(tempo, beats, sub_beats), for beats * sub_beats
\* below 2^31.
sequencer(tempo, beats, sub_beats) ==
    [beats |-> beats, subBeats |-> sub_beats,
     currentBeat |-> 0, totalBeats |-> beats * sub_beats,
     tempo |-> tempo,
     beatTime |-> FDiv[FDiv[FromInt[60], tempo], FromInt[sub_beats]],
     timeTotal |-> Zero,
     notes |-> << >>, channels |-> << >>]

\* channel.beat[currentBeat]: the character at a position of the string; the
\* terminator at position size(); undefined behaviour past it, where the
\* read yields whatever byte `junk` lies there.
beat_at(beat, pos, junk) ==
    IF pos < Len(beat) THEN beat[pos + 1]
    ELSE IF pos = Len(beat) THEN "NUL"
    ELSE junk

\* The for loop over the channels at the current step, from channel c on:
\* the notes pushed back.  junk[c] is what a read past the end of channel c's
\* pattern yields in this pass of the loop.
RECURSIVE for_each_channel(_, _, _, _, _)
for_each_channel(chs, c, currentBeat, ns, junk) ==
    IF c > Len(chs)
    THEN ns
    ELSE for_each_channel(chs, c + 1, currentBeat,
            IF beat_at(chs[c].beat, currentBeat, junk[c]) = "x"
            THEN Append(ns, [note_default EXCEPT
                               !.channel = chs[c].instrument,
                               !.active = TRUE, !.id = 64])
            ELSE ns,
            junk)

\* ++currentBeat >= totalBeats ? 0 : currentBeat
next_beat_NoWrap(s) == s.currentBeat + 1
next_beat(s) ==
    IF s.currentBeat + 1 >= s.totalBeats THEN 0 ELSE s.currentBeat + 1

\* The while loop of update(): s is the sequencer, steps counts iterations;
\* junk[k] is what the reads past the end yield in iteration k.
RECURSIVE while_loop(_, _, _)
while_loop(s, steps, junk) ==
    IF ~FGe[s.timeTotal, s.beatTime]
    THEN [sq |-> s, steps |-> steps]
    ELSE The({while_loop([s EXCEPT !.timeTotal = FSub[s.timeTotal, s.beatTime],
                                  !.currentBeat = cb,
                                  !.notes = for_each_channel(s.channels, 1, cb,
                                               s.notes, junk[steps + 1])],
                        steps + 1, junk) :
                 cb \in {next_beat(s)}})

\* notes.clear()
clear(ns) == << >>

\* sequencer::update(delta_time): the sequencer it leaves, the number of
\* loop iterations, and the value it returns (notes.size()).
update(s, delta_time, junk) ==
    The({[sq |-> r.sq, steps |-> r.steps, ret |-> Len(r.sq.notes)] :
            r \in {while_loop([s EXCEPT !.notes = clear(s.notes),
                                        !.timeTotal = FAdd[s.timeTotal, delta_time]],
                              0, junk)}})

\* sequencer::add_inst(instrument, beat)
add_inst(s, instrument, beat) ==
    [s EXCEPT !.channels =
        Append(s.channels, [instrument |-> instrument, beat |-> beat])]

\* Memory past the patterns that holds no trigger character.
NoJunk == [k \in Nat |-> [c \in Nat |-> "."]]

\* The number of iterations of the while loop in update(delta_time).
Iterations(s, delta_time) == update(s, delta_time, NoJunk).steps

\* The positions update() indexes: the steps reached after currentBeat.
RECURSIVE StepsReached(_, _)
StepsReached(s, k) ==
    IF k = 0 THEN << >>
    ELSE <<next_beat(s)>> \o StepsReached([s EXCEPT !.currentBeat = next_beat(s)], k - 1)

ReadsPastEnd(s, k) ==
    \E c \in 1..Len(s.channels), j \in 1..k :
        StepsReached(s, k)[j] >= Len(s.channels[c].beat)

\* What the reads past the end of the patterns can yield during a call of k
\* iterations: one byte for each read (junk[j][c] is not read where the
\* position of iteration j lies within channel c's string).
JunkReads(s, k) ==
    {junk \in [1..k -> [1..Len(s.channels) -> {"x", "."}]] :
        \A j \in 1..k, c \in 1..Len(s.channels) :
            StepsReached(s, k)[j] <= Len(s.channels[c].beat) => junk[j][c] = "."}

SeqInit ==
    /\ EngInit
    /\ EnvIdle
    /\ \E cfg \in SeqConfigs : sq = sequencer(cfg[1], cfg[2], cfg[3])
    /\ deltaTime = Zero
    /\ ret = 0
    /\ badRead = FALSE

AddInst(instrument, beat) ==
    /\ Len(sq.channels) < MaxChannels
    /\ sq' = add_inst(sq, instrument, beat)
    /\ UNCHANGED <<deltaTime, ret, badRead>>
    /\ UNCHANGED <<engVars, envVars>>

Update(delta_time) ==
    /\ \E k \in {Iterations(sq, delta_time)} :
         \E junk \in JunkReads(sq, k) :
            \E r \in {update(sq, delta_time, junk)} :
               /\ r.sq.timeTotal \in ClockValues
               /\ sq' = r.sq
               /\ ret' = r.ret
               /\ badRead' = (badRead \/ ReadsPastEnd(sq, r.steps))
    /\ deltaTime' = delta_time
    /\ UNCHANGED <<engVars, envVars>>

SeqNext ==
    \/ \E beat \in Patterns : AddInst("kick", beat)
    \/ \E dt \in DeltaTimes \cup {sq.beatTime} : Update(dt)

SeqSpec == SeqInit /\ [][SeqNext]_vars


-----------------------------------------------------------------------------
(* Properties of the sequencer (specification SeqSpec).                    *)

\* A step that is an update() call (add_inst is the one call that changes
\* the channels); its argument is deltaTime'.
UpdateStep == sq'.channels = sq.channels

\* totalBeats calls of update(beatTime), one after the other, from s: the
\* sequencer at the end, and whether every call moved the step index by
\* exactly one with wraparound.
RECURSIVE Cycle(_, _, _)
Cycle(s, n, byOne) ==
    IF n = 0
    THEN [sq |-> s, byOne |-> byOne]
    ELSE The({Cycle(r.sq, n - 1,
                   byOne /\ r.steps = 1
                         /\ r.sq.currentBeat = (s.currentBeat + 1) % s.totalBeats) :
                 r \in {update(s, s.beatTime, NoJunk)}})

CycleCloses(s) ==
    LET c == Cycle(s, s.totalBeats, TRUE)
    IN  /\ c.byOne
        /\ c.sq.currentBeat = 0
        /\ c.sq.timeTotal = s.timeTotal

\* C4 as claimed: from currentBeat = 0 and any residual clock, totalBeats
\* calls of update(beatTime) each advance the step by exactly one and end at
\* currentBeat = 0 with the same residual clock.
C4_CycleClosure ==
    sq.currentBeat = 0 => CycleCloses(sq)

\* The number n * 2^e is a double.
IsDouble(n, e) ==
    The({/\ IsFin(r)
         /\ IF r.e >= e THEN BShl[r.m, r.e - e] = n ELSE r.m = BShl[n, e - r.e] :
            r \in {Round[0, n, e]}})

\* The sum x + y of two positive doubles needs no rounding.
ExactSum(x, y) ==
    The({IsDouble(BAdd[BShl[x.m, x.e - e], BShl[y.m, y.e - e]], e) :
            e \in {Min(x.e, y.e)}})

\* The sum timeTotal + beatTime needs no rounding.
SumExact(s) == IsZero(s.timeTotal) \/ ExactSum(s.timeTotal, s.beatTime)

\* C4 amended: the same, for a residual clock r for which the floating-point
\* sum r + beatTime is exact (r = 0 is such an r); and then every single
\* update(beatTime) advances the step by exactly one with wraparound and
\* leaves the clock as it was.
C4_CycleClosureExact ==
    /\ []((sq.currentBeat = 0 /\ SumExact(sq)) => CycleCloses(sq))
    /\ [][(UpdateStep /\ deltaTime' = sq.beatTime /\ SumExact(sq)) =>
            /\ sq'.currentBeat = (sq.currentBeat + 1) % sq.totalBeats
            /\ sq'.timeTotal = sq.timeTotal]_vars

\* The sequencer is back at step 0 of a 16-step grid after update(beatTime)
\* calls, with a non-zero residual clock.
C4_Witness ==
    /\ sq.totalBeats = 16
    /\ sq.currentBeat = 0
    /\ deltaTime = sq.beatTime
    /\ ~IsZero(sq.timeTotal)
    /\ SumExact(sq)
    /\ Len(sq.channels) > 0
    /\ ret = Len(sq.channels)

\* The pattern holds the trigger character at position pos.
Holds(beat, pos) == pos < Len(beat) /\ beat[pos + 1] = "x"

\* The number of (step reached, channel) pairs with a trigger, over the k
\* steps after currentBeat.
Triggers(s, k) ==
    Cardinality({p \in (1..k) \X (1..Len(s.channels)) :
                    Holds(s.channels[p[2]].beat,
                          (s.currentBeat + p[1]) % s.totalBeats)})

\* C5: update(deltaTime) returns the number of (step boundary crossed in
\* this call, channel) pairs whose pattern holds the trigger character at the
\* step index reached: all k steps of a call that crosses k boundaries, 0 for
\* a call that crosses none, nothing from earlier calls.
C5_TriggerCount ==
    [][UpdateStep =>
         ret' = Triggers(sq, Iterations(sq, deltaTime'))]_vars

\* C6: no registered channel has a pattern shorter than totalBeats, and
\* update() never indexes a pattern at or past its length.
C6_PatternChecked ==
    /\ \A c \in 1..Len(sq.channels) : Len(sq.channels[c].beat) >= sq.totalBeats
    /\ ~badRead


-----------------------------------------------------------------------------
(* The envelope on its own: one adsr object, get_amplitude called on it.   *)

\* The settings the repository constructs: adsr::adsr() and the five
\* instruments' constructors.
BuiltInEnvelopes ==
    {adsr_default, bell.env, harmonica.env, kick.env, snare.env, hihat.env}

\* Two further settings of the public fields: a sustain level above the
\* start level, and a start level below the sustain level.
EnvSettings ==
    BuiltInEnvelopes \cup
        {[adsr_default EXCEPT !.sustainAmplitude = FromInt[2]],
         [adsr_default EXCEPT !.startAmplitude = Dec(5, 10)]}

\* The arguments of get_amplitude, in seconds: time_global 0, 0.05, 0.19,
\* 0.25, 0.5, 1.24, 1.5 and 3; time_on 0, 0.05, 0.25 and 0.5; time_off 0,
\* 0.01, 0.05, 0.21, 0.25 and 0.5.
EnvGlobalTimes ==
    {Zero, Dec(5, 100), Dec(19, 100), Dec(25, 100), Dec(5, 10), Dec(124, 100),
     Dec(15, 10), FromInt[3]}
EnvOnTimes == {Zero, Dec(5, 100), Dec(25, 100), Dec(5, 10)}
EnvOffTimes ==
    {Zero, Dec(1, 100), Dec(5, 100), Dec(21, 100), Dec(25, 100), Dec(5, 10)}

\* An adsr object with its public fields set, and the arguments of the call.
EnvInit ==
    /\ EngInit
    /\ SeqIdle
    /\ adsr \in EnvSettings
    /\ args \in EnvGlobalTimes \X EnvOnTimes \X EnvOffTimes
    /\ amplitude = NoResult

\* adsr.get_amplitude(time_global, time_on, time_off)
GetAmplitude(time_global, time_on, time_off) ==
    /\ amplitude = NoResult
    /\ args = <<time_global, time_on, time_off>>
    /\ amplitude' = get_amplitude(adsr, time_global, time_on, time_off)
    /\ UNCHANGED <<adsr, args>>
    /\ UNCHANGED <<engVars, seqVars>>

EnvNext ==
    \E tg \in EnvGlobalTimes, on \in EnvOnTimes, off \in EnvOffTimes :
        GetAmplitude(tg, on, off)

EnvSpec == EnvInit /\ [][EnvNext]_vars

-----------------------------------------------------------------------------
(* Properties of the envelope (specification EnvSpec).                     *)

\* The call has returned.
Returned == amplitude # NoResult

\* A gain in [0, startAmplitude] that is exactly 0 unless it exceeds 0.01.
GainInRange(e, a) ==
    /\ FLe[Zero, a]
    /\ FLe[a, e.startAmplitude]
    /\ (IsZero(a) \/ FGt[a, Threshold])

\* C9 as claimed: for every time_global, time_on, time_off and every setting
\* of the five parameters, get_amplitude returns a gain in
\* [0, startAmplitude], and exactly 0 where the computed value is <= 0.01.
C9_GainInRange == Returned => GainInRange(adsr, amplitude)

\* The note is held, or released no later than time_global.
HeldOrReleasedBy(a) == FGt[a[2], a[3]] \/ FGe[a[1], a[3]]

\* C9 amended: for the envelope settings the repository constructs (the
\* default and the five instruments'), and for a note that is held or was
\* released no later than time_global, get_amplitude returns a gain in
\* [0, startAmplitude], and exactly 0 where the computed value is <= 0.01.
C9_GainInRangeBuiltIn ==
    (Returned /\ adsr \in BuiltInEnvelopes /\ HeldOrReleasedBy(args))
        => GainInRange(adsr, amplitude)

\* A released Bell note late in its release ramp: the computed value lies in
\* (0, 0.01] and 0 is returned.
C9_Witness ==
    /\ Returned
    /\ adsr = bell.env
    /\ FLe[args[2], args[3]] /\ FGt[args[1], args[3]]
    /\ FGt[raw_amplitude(adsr, args[1], args[2], args[3]), Zero]
    /\ FLe[raw_amplitude(adsr, args[1], args[2], args[3]), Threshold]
    /\ IsZero(amplitude)

=============================================================================
